---- MODULE Spec2Model ----
(***************************************************************************)
(* Model of the stock-analysis server (src/API/server.js): the per-symbol  *)
(* metrics computed by TradingViewScraper.getStockDataAPI and the request  *)
(* handler app.post('/api/analyze').                                       *)
(*                                                                         *)
(* Conventions.  JS arrays are sequences read with 0-based indices through *)
(* At.  JS null/undefined in a series is Null.  A JS number that comes out *)
(* of a division is an exact fraction [n, d] with d >= 0; d = 0 is a       *)
(* non-finite value (NaN when n = 0, Infinity otherwise).  priceChange is  *)
(* kept in hundredths (it is toFixed(2)), ratios in thousandths            *)
(* (toFixed(3)).  Instants are in hours since the epoch; a calendar date   *)
(* is a day number.                                                        *)
(***************************************************************************)
EXTENDS Integers, Sequences, FiniteSets, TLC

VARIABLES
    tz,          \* local time-zone offset of the server process, hours
    browser,     \* scraper.browser: 0 is null, else the handle last stored
    launches,    \* number of puppeteer.launch calls that produced a handle
    pc,          \* per request: position of the handler
    body,        \* per request: req.body.symbols
    reqDate,     \* per request: req.body.date
    allSymbols,  \* per request: the de-duplicated symbol list
    fetches,     \* per request: one promise state per entry of allSymbols
    response,    \* per request: what was sent with res.json
    series,      \* pure-function specifications: the series under analysis
    argDate,     \* pure-function specifications: the date argument
    result,      \* pure-function specifications: getStockDataAPI's value
    lastAnalysisData,  \* StockAnalyzer: the stored response data, <<>> with hasData FALSE when null
    currentSort,       \* StockAnalyzer: the sorting state
    rendered,          \* the rows of #resultsTableBody, top to bottom
    lastEvent          \* the page event handled last

vars == <<tz, browser, launches, pc, body, reqDate, allSymbols, fetches,
          response, series, argDate, result,
          lastAnalysisData, currentSort, rendered, lastEvent>>

serverVars == <<browser, launches, pc, body, reqDate, allSymbols, fetches, response>>
pureVars == <<series, argDate, result>>
uiVars == <<lastAnalysisData, currentSort, rendered, lastEvent>>

----------------------------------------------------------------------------
(* Bounds *)

MaxLen == 11          \* longest volume series explored
MaxPoints == 3        \* longest dated series explored
MaxSymbols == 2       \* longest requested symbol list
MaxRows == 3          \* most non-benchmark rows in a displayed result set

(* Values the inputs are drawn from *)

Null == -1                         \* JS null / undefined inside a series
NoDate == 0                        \* date absent, null or "" (falsy)
\* the volume of the k-th session is null or k % 3: 1, 2, 0, 1, 2, 0, ...
VolumeValues(k) == {Null, k % 3}
TzOffsets == {-5, 0, 8}
Days == 1..3
Hours == {1, 22}
CloseValues == {Null, 0, 100, 130}

----------------------------------------------------------------------------
(* JS numbers and arrays *)

Max(a, b) == IF a > b THEN a ELSE b
Min(a, b) == IF a < b THEN a ELSE b

\* seq[i] with a JS index; out of range reads undefined
At(seq, i) == IF i >= 0 /\ i < Len(seq) THEN seq[i + 1] ELSE Null

\* seq.slice(from, to) for 0 <= from
Slice(seq, from, to) ==
    LET e == Min(to, Len(seq))
    IN  IF e <= from THEN <<>> ELSE [k \in 1..(e - from) |-> seq[from + k]]

RECURSIVE SumSeq(_)
\* seq.reduce((sum, vol) => sum + vol, 0)
SumSeq(seq) == IF seq = <<>> THEN 0 ELSE Head(seq) + SumSeq(Tail(seq))

Frac(n, d) == IF d < 0 THEN [n |-> -n, d |-> -d] ELSE [n |-> n, d |-> d]
Num(k) == [n |-> k, d |-> 1]
\* a / b: a zero divisor gives NaN or Infinity (d = 0)
JsDiv(a, b) == Frac(a.n * b.d, a.d * b.n)
IsFinite(a) == a.d # 0
\* a > b; any comparison with NaN is false
FracGt(a, b) == IsFinite(a) /\ IsFinite(b) /\ a.n * b.d > b.n * a.d

\* x.toFixed(k) read back as an integer number of 10^-k units: n/d to the
\* nearest integer, halves away from zero
RoundFrac(n, d) ==
    IF n >= 0 THEN (2 * n + d) \div (2 * d) ELSE -((2 * (-n) + d) \div (2 * d))

----------------------------------------------------------------------------
(* getStockDataAPI, lines 89-123 *)

\* new Date(ts * 1000).toDateString(): the local calendar day of an instant
ToDateString(instant) == (instant + tz) \div 24

\* new Date(date) for a date-only ISO string: midnight UTC of that day
NewDate(date) == date * 24

RECURSIVE FindIndexFrom(_, _, _)
FindIndexFrom(timestamps, day, i) ==
    IF i >= Len(timestamps) THEN -1
    ELSE IF ToDateString(timestamps[i + 1]) = day THEN i
    ELSE FindIndexFrom(timestamps, day, i + 1)

TargetIndex(timestamps, date) ==
    IF date # NoDate
    THEN LET found == FindIndexFrom(timestamps, ToDateString(NewDate(date)), 0)
         IN  IF found = -1 THEN Len(timestamps) - 1 ELSE found
    ELSE Len(timestamps) - 1

VolumeSlice(volumes, targetIndex) ==
    LET start == Max(0, targetIndex - 9)
    IN  SelectSeq(Slice(volumes, start, targetIndex + 1), LAMBDA v : v # Null)

\* as AvgVolume, had the window started at targetIndex - 10
AvgVolume_ElevenPoints(volumes, targetIndex) ==
    LET start == Max(0, targetIndex - 10)
        volumeSlice == SelectSeq(Slice(volumes, start, targetIndex + 1), LAMBDA v : v # Null)
    IN  IF Len(volumeSlice) > 0
        THEN Frac(SumSeq(volumeSlice), Len(volumeSlice))
        ELSE Num(0)

AvgVolume(volumes, targetIndex) ==
    LET volumeSlice == VolumeSlice(volumes, targetIndex)
    IN  IF Len(volumeSlice) > 0
        THEN Frac(SumSeq(volumeSlice), Len(volumeSlice))
        ELSE Num(0)

\* volumes[targetIndex] || 0
CurrentVolume(volumes, targetIndex) ==
    LET v == At(volumes, targetIndex)
    IN  IF v = Null \/ v = 0 THEN 0 ELSE v

\* as VlRatio, had the division not been guarded
VlRatio_Unguarded(currentVolume, avgVolume) == JsDiv(Num(currentVolume), avgVolume)

VlRatio(currentVolume, avgVolume) ==
    IF FracGt(avgVolume, Num(0)) THEN JsDiv(Num(currentVolume), avgVolume) ELSE Num(0)

\* as PriceChangeRaw, had the change been taken relative to the current close
PriceChangeRaw_OverCurrent(closes, targetIndex) ==
    LET currentPrice == At(closes, targetIndex)
        prev == At(closes, targetIndex - 1)
        previousPrice == IF prev = Null \/ prev = 0 THEN currentPrice ELSE prev
        cur == IF currentPrice = Null THEN 0 ELSE currentPrice
    IN  IF previousPrice # Null /\ previousPrice > 0 /\ cur > 0
        THEN Frac((cur - previousPrice) * 100, cur)
        ELSE Num(0)

\* lines 110-112: the percentage before rounding; a null current close
\* counts as 0 in the subtraction
PriceChangeRaw(closes, targetIndex) ==
    LET currentPrice == At(closes, targetIndex)
        prev == At(closes, targetIndex - 1)
        previousPrice == IF prev = Null \/ prev = 0 THEN currentPrice ELSE prev
        cur == IF currentPrice = Null THEN 0 ELSE currentPrice
    IN  IF previousPrice # Null /\ previousPrice > 0
        THEN Frac((cur - previousPrice) * 100, previousPrice)
        ELSE Num(0)

\* line 120: in hundredths of a percent point, after toFixed(2)
PriceChange(closes, targetIndex) ==
    LET priceChange == PriceChangeRaw(closes, targetIndex)
    IN  RoundFrac(priceChange.n * 100, priceChange.d)

\* the object returned at lines 114-123; timestamps[targetIndex] * 1000 is
\* NaN and the date "Invalid Date" when the index is out of range (Null)
GetStockDataAPI(symbol, s, date) ==
    LET targetIndex == TargetIndex(s.timestamps, date)
        avgVolume == AvgVolume(s.volumes, targetIndex)
        currentVolume == CurrentVolume(s.volumes, targetIndex)
        stamp == At(s.timestamps, targetIndex)
    IN  [kind |-> "data",
         symbol |-> symbol,
         targetIndex |-> targetIndex,
         currentVolume |-> currentVolume,
         avgVolume |-> avgVolume,
         vlRatio |-> VlRatio(currentVolume, avgVolume),
         price |-> At(s.closes, targetIndex),
         priceChange |-> PriceChange(s.closes, targetIndex),
         timestamp |-> stamp,
         date |-> IF stamp = Null THEN Null ELSE ToDateString(stamp)]

----------------------------------------------------------------------------
(* What the data source can answer to one GET, lines 76-87 *)

Daily(closes, volumes) ==
    [timestamps |-> [k \in 1..Len(closes) |-> k * 24 + 14],
     volumes |-> volumes, closes |-> closes]

EmptySeries == [timestamps |-> <<>>, volumes |-> <<>>, closes |-> <<>>]

\* a rejected GET or a payload without chart.result[0]: the try block throws
Rejected == [timestamps |-> <<Null>>, volumes |-> <<>>, closes |-> <<>>]

Payloads ==
    { EmptySeries,
      Daily(<<10000, 13000>>, <<2, 2>>),
      Daily(<<10000, 13001>>, <<Null, 0>>),
      Daily(<<10000, 10000>>, <<0, 2>>),
      Daily(<<10000, 9000>>, <<2, Null>>) }

RequestDates == {NoDate, 1}

----------------------------------------------------------------------------
(* app.post('/api/analyze'), lines 143-220 *)

benchmarks == <<"QQQ", "SPY", "IWM">>
RequestSymbols == {"AAPL", "QQQ"}

Range(seq) == { seq[k] : k \in 1..Len(seq) }

SeqsUpTo(S, n) == UNION { [1..k -> S] : k \in 0..n }

\* req.body.symbols: absent, a non-array value, or an array of strings
Bodies ==
    { [kind |-> "missing", symbols |-> <<>>],
      [kind |-> "nonarray", symbols |-> <<>>] }
    \cup { [kind |-> "array", symbols |-> s] : s \in SeqsUpTo(RequestSymbols, MaxSymbols) }

NoBody == [kind |-> "none", symbols |-> <<>>]

\* as IsValidBody, had the guard been only !symbols
IsValidBody_TruthyOnly(b) == b.kind \in {"array", "nonarray"}

\* the guard of line 147 negated: symbols is truthy and Array.isArray(symbols)
IsValidBody(b) == b.kind = "array"

RECURSIVE Dedup(_, _)
\* [...new Set(seq)]: first occurrences, in order
Dedup(seq, seen) ==
    IF seq = <<>> THEN <<>>
    ELSE IF Head(seq) \in seen THEN Dedup(Tail(seq), seen)
    ELSE <<Head(seq)>> \o Dedup(Tail(seq), seen \cup {Head(seq)})

AllSymbols(symbols) == Dedup(benchmarks \o symbols, {})

Pending == [kind |-> "pending"]
NullResult == [kind |-> "null"]

\* the value one getStockDataAPI promise resolves with (it never rejects)
FetchValue(symbol, payload, date) ==
    IF payload = Rejected THEN NullResult ELSE GetStockDataAPI(symbol, payload, date)

NoResponse == [status |-> 0, success |-> FALSE, error |-> "", data |-> <<>>]
BadRequest == [status |-> 400, success |-> FALSE, error |-> "Symbols array is required", data |-> <<>>]
FetchFailed == [status |-> 500, success |-> FALSE, error |-> "Failed to fetch data for any symbols", data |-> <<>>]
InternalError == [status |-> 500, success |-> FALSE, error |-> "Internal server error", data |-> <<>>]

ValidResults(results) == SelectSeq(results, LAMBDA res : res # NullResult)

\* validResults.find(r => r.symbol === b): <<>> when undefined
Find(validResults, b) == SelectSeq(validResults, LAMBDA res : res.symbol = b)

\* as Comparison, had a missing benchmark counted as a change of 0 over 1
Comparison_MissingAsZero(stock, found) ==
    LET compareTo == IF found = <<>> THEN Num(0)
                     ELSE IF found[1].priceChange # 0
                     THEN Frac(stock.priceChange, found[1].priceChange)
                     ELSE Num(1)
    IN  [ratio |-> RoundFrac(compareTo.n * 1000, compareTo.d),
         status |-> IF FracGt(compareTo, Num(1)) THEN "stronger" ELSE "weaker"]

\* lines 180-182 and 194-195 for one benchmark
Comparison(stock, found) ==
    LET compareTo == IF found # <<>> /\ found[1].priceChange # 0
                     THEN Frac(stock.priceChange, found[1].priceChange)
                     ELSE Num(1)
    IN  [ratio |-> RoundFrac(compareTo.n * 1000, compareTo.d),
         status |-> IF FracGt(compareTo, Num(1)) THEN "stronger" ELSE "weaker"]

\* lines 184-206; vlRatio in thousandths, Null when toFixed gives "NaN"
AnalysisEntry(stock, validResults) ==
    [symbol |-> stock.symbol,
     vlRatio |-> IF IsFinite(stock.vlRatio)
                 THEN RoundFrac(stock.vlRatio.n * 1000, stock.vlRatio.d) ELSE Null,
     currentVolume |-> stock.currentVolume,
     avgVolume |-> RoundFrac(stock.avgVolume.n, stock.avgVolume.d),
     price |-> stock.price,
     priceChange |-> stock.priceChange,
     date |-> stock.date,
     comparisons |-> [vs_QQQ |-> Comparison(stock, Find(validResults, "QQQ")),
                      vs_SPY |-> Comparison(stock, Find(validResults, "SPY")),
                      vs_IWM |-> Comparison(stock, Find(validResults, "IWM"))]]

\* as Analyze, had any null result been reported as a failure
Analyze_AnyNullFails(results) ==
    LET validResults == ValidResults(results)
    IN  IF Len(validResults) < Len(results) THEN FetchFailed
        ELSE [status |-> 200, success |-> TRUE, error |-> "",
              data |-> [k \in 1..Len(validResults) |->
                           AnalysisEntry(validResults[k], validResults)]]

\* lines 167-214: the response once Promise.all has resolved
Analyze(results) ==
    LET validResults == ValidResults(results)
    IN  IF Len(validResults) = 0 THEN FetchFailed
        ELSE [status |-> 200, success |-> TRUE, error |-> "",
              data |-> [k \in 1..Len(validResults) |->
                           AnalysisEntry(validResults[k], validResults)]]

\* line 163: every getStockDataAPI call runs up to its axios.get
StartFetches(symbols) == [k \in 1..Len(symbols) |-> Pending]

\* lines 145-163, synchronously up to the first await
Receive(r, b, d) ==
    /\ pc[r] = "idle"
    /\ body' = [body EXCEPT ![r] = b]
    /\ reqDate' = [reqDate EXCEPT ![r] = d]
    /\ IF ~IsValidBody(b)
       THEN /\ response' = [response EXCEPT ![r] = BadRequest]
            /\ pc' = [pc EXCEPT ![r] = "done"]
            /\ UNCHANGED <<allSymbols, fetches>>
       ELSE /\ allSymbols' = [allSymbols EXCEPT ![r] = AllSymbols(b.symbols)]
            /\ IF browser = 0
               THEN /\ pc' = [pc EXCEPT ![r] = "init"]
                    /\ UNCHANGED fetches
               ELSE /\ pc' = [pc EXCEPT ![r] = "fetching"]
                    /\ fetches' = [fetches EXCEPT ![r] = StartFetches(allSymbols'[r])]
            /\ UNCHANGED response
    /\ UNCHANGED <<tz, browser, launches, pureVars, uiVars>>

\* lines 23-26 resolve, then lines 162-164
LaunchResolved(r) ==
    /\ pc[r] = "init"
    /\ launches' = launches + 1
    /\ browser' = launches'
    /\ pc' = [pc EXCEPT ![r] = "fetching"]
    /\ fetches' = [fetches EXCEPT ![r] = StartFetches(allSymbols[r])]
    /\ UNCHANGED <<tz, body, reqDate, allSymbols, response, pureVars, uiVars>>

\* puppeteer.launch rejects: initialize throws into the catch of line 216
LaunchRejected(r) ==
    /\ pc[r] = "init"
    /\ response' = [response EXCEPT ![r] = InternalError]
    /\ pc' = [pc EXCEPT ![r] = "done"]
    /\ UNCHANGED <<tz, browser, launches, body, reqDate, allSymbols, fetches, pureVars, uiVars>>

\* one getStockDataAPI promise settles, lines 72-128
FetchSettled(r, k, payload) ==
    /\ pc[r] = "fetching"
    /\ k \in 1..Len(fetches[r])
    /\ fetches[r][k] = Pending
    /\ fetches' = [fetches EXCEPT ![r][k] = FetchValue(allSymbols[r][k], payload, reqDate[r])]
    /\ UNCHANGED <<tz, browser, launches, pc, body, reqDate, allSymbols, response, pureVars, uiVars>>

\* as Respond, had getStockDataAPI rethrown: Promise.all rejects on the first
\* failure and the catch of line 216 answers at once
Respond_FailFast(r) ==
    /\ pc[r] = "fetching"
    /\ IF \E k \in 1..Len(fetches[r]) : fetches[r][k] = NullResult
       THEN response' = [response EXCEPT ![r] = InternalError]
       ELSE /\ \A k \in 1..Len(fetches[r]) : fetches[r][k] # Pending
            /\ response' = [response EXCEPT ![r] = Analyze(fetches[r])]
    /\ pc' = [pc EXCEPT ![r] = "done"]
    /\ UNCHANGED <<tz, browser, launches, body, reqDate, allSymbols, fetches, pureVars, uiVars>>

\* Promise.all resolves (line 164); lines 166-214 run
Respond(r) ==
    /\ pc[r] = "fetching"
    /\ \A k \in 1..Len(fetches[r]) : fetches[r][k] # Pending
    /\ response' = [response EXCEPT ![r] = Analyze(fetches[r])]
    /\ pc' = [pc EXCEPT ![r] = "done"]
    /\ UNCHANGED <<tz, browser, launches, body, reqDate, allSymbols, fetches, pureVars, uiVars>>

\* the connection is finished; the next request of this client arrives later
NextRequest(r) ==
    /\ pc[r] = "done"
    /\ pc' = [pc EXCEPT ![r] = "idle"]
    /\ body' = [body EXCEPT ![r] = NoBody]
    /\ reqDate' = [reqDate EXCEPT ![r] = NoDate]
    /\ allSymbols' = [allSymbols EXCEPT ![r] = <<>>]
    /\ fetches' = [fetches EXCEPT ![r] = <<>>]
    /\ response' = [response EXCEPT ![r] = NoResponse]
    /\ UNCHANGED <<tz, browser, launches, pureVars, uiVars>>

----------------------------------------------------------------------------
(* StockAnalyzer, src/Static/VL-ratio-comparison.js: display and sorting *)

columns == <<"symbol", "priceChange", "vlRatio", "vsQQQ", "vsSPY", "vsIWM", "price", "volume">>

NoColumn == "null"

\* the collation localeCompare applies to the symbols on the page
SymbolOrder == [AAPL |-> 1, IWM |-> 2, MSFT |-> 3, QQQ |-> 4, SPY |-> 5, TSLA |-> 6]

\* this.benchmarks.includes(symbol)
IsBenchmark(symbol) == symbol \in Range(benchmarks)

\* this.benchmarks.indexOf(symbol)
IndexOf(symbol) == CHOOSE k \in 0..(Len(benchmarks) - 1) : benchmarks[k + 1] = symbol

\* one entry of data.data as the server sends it (ratios in thousandths)
Row(symbol, priceChange, vlRatio, q, s, i, price, volume) ==
    [symbol |-> symbol, vlRatio |-> vlRatio, currentVolume |-> volume,
     avgVolume |-> volume, price |-> price, priceChange |-> priceChange, date |-> 2,
     comparisons |-> [vs_QQQ |-> [ratio |-> q, status |-> IF q > 1000 THEN "stronger" ELSE "weaker"],
                      vs_SPY |-> [ratio |-> s, status |-> IF s > 1000 THEN "stronger" ELSE "weaker"],
                      vs_IWM |-> [ratio |-> i, status |-> IF i > 1000 THEN "stronger" ELSE "weaker"]]]

BenchmarkRows ==
    <<Row("QQQ", 100, 1000, 1000, 500, 2000, 400, 50),
      Row("SPY", 200, 900, 2000, 1000, 4000, 500, 60),
      Row("IWM", 50, 1100, 500, 250, 1000, 200, 70)>>

\* non-benchmark rows: ties in vlRatio and price (null and 0 both sort as
\* 0), distinct symbols, price changes, comparison ratios and volumes
OtherRows ==
    { Row("AAPL", 200, 1000, 2000, 1000, 4000, 5, 10),
      Row("MSFT", -100, 1000, -1000, -500, -2000, Null, 30),
      Row("TSLA", 0, 500, 0, 0, 0, 0, 20) }

RECURSIVE Arrangements(_, _)
\* the sequences of at most n distinct elements of S
Arrangements(S, n) ==
    IF n = 0 THEN {<<>>}
    ELSE {<<>>} \cup UNION { { <<x>> \o rest : rest \in Arrangements(S \ {x}, n - 1) } : x \in S }

\* the data arrays the server can send: the benchmarks that resolved, in
\* their fetch order, then the other symbols in the order requested
ResultSets ==
    { SelectSeq(BenchmarkRows, LAMBDA row : row.symbol \in present) \o others :
        present \in SUBSET Range(benchmarks), others \in Arrangements(OtherRows, MaxRows) }

\* the aValue / bValue of lines 356-391
SortKey(row, column) ==
    CASE column = "symbol" -> SymbolOrder[row.symbol]
      [] column = "priceChange" -> IF row.priceChange = Null THEN 0 ELSE row.priceChange
      [] column = "vlRatio" -> row.vlRatio
      [] column = "vsQQQ" -> row.comparisons.vs_QQQ.ratio
      [] column = "vsSPY" -> row.comparisons.vs_SPY.ratio
      [] column = "vsIWM" -> row.comparisons.vs_IWM.ratio
      [] column = "price" -> IF row.price = Null THEN 0 ELSE row.price
      [] column = "volume" -> row.currentVolume

\* the comparators handed to Array.prototype.sort: lines 165-179
\* ("benchmarksFirst"), 348-350 ("benchmarkOrder") and 353-402 ("column")
Compare(a, b, mode) ==
    CASE mode.kind = "benchmarksFirst" ->
            IF IsBenchmark(a.symbol) /\ ~IsBenchmark(b.symbol) THEN -1
            ELSE IF ~IsBenchmark(a.symbol) /\ IsBenchmark(b.symbol) THEN 1
            ELSE IF IsBenchmark(a.symbol) /\ IsBenchmark(b.symbol)
                 THEN IndexOf(a.symbol) - IndexOf(b.symbol)
            ELSE SymbolOrder[a.symbol] - SymbolOrder[b.symbol]
      [] mode.kind = "benchmarkOrder" -> IndexOf(a.symbol) - IndexOf(b.symbol)
      [] mode.kind = "column" ->
            IF mode.column \notin Range(columns) THEN 0
            ELSE IF mode.direction = "asc"
                 THEN SortKey(a, mode.column) - SortKey(b, mode.column)
                 ELSE SortKey(b, mode.column) - SortKey(a, mode.column)

\* x put after every element that does not compare greater than it
InsertSorted(sorted, x, mode) ==
    LET after == { k \in 1..Len(sorted) : Compare(sorted[k], x, mode) > 0 }
        at == IF after = {} THEN Len(sorted) + 1 ELSE CHOOSE k \in after : \A j \in after : k <= j
    IN  SubSeq(sorted, 1, at - 1) \o <<x>> \o SubSeq(sorted, at, Len(sorted))

RECURSIVE SortFrom(_, _, _)
SortFrom(sorted, rest, mode) ==
    IF rest = <<>> THEN sorted
    ELSE SortFrom(InsertSorted(sorted, Head(rest), mode), Tail(rest), mode)

\* Array.prototype.sort(comparator): a stable sort
Sort(seq, mode) == SortFrom(<<>>, seq, mode)

\* lines 164-180
sortDataWithBenchmarksFirst(data) == Sort(data, [kind |-> "benchmarksFirst"])

\* lines 342-406
sortData(data, column, direction) ==
    LET bench == SelectSeq(data, LAMBDA row : IsBenchmark(row.symbol))
        regularStocks == SelectSeq(data, LAMBDA row : ~IsBenchmark(row.symbol))
        sortedBenchmarks == Sort(bench, [kind |-> "benchmarkOrder"])
        sortedRegularStocks ==
            Sort(regularStocks, [kind |-> "column", column |-> column, direction |-> direction])
    IN  sortedBenchmarks \o sortedRegularStocks

NoEvent == [kind |-> "none", column |-> NoColumn, fresh |-> FALSE]

\* lines 3-26: the state after the constructor, nothing displayed
InitUi ==
    /\ lastAnalysisData = [hasData |-> FALSE, data |-> <<>>]
    /\ currentSort = [column |-> NoColumn, direction |-> "asc"]
    /\ rendered = <<>>
    /\ lastEvent = NoEvent

\* displayResults, lines 132-162: data.data is sorted in place, so the stored
\* array is the sorted one; currentSort is not touched
displayResults(data) ==
    /\ lastAnalysisData' = [hasData |-> TRUE, data |-> sortDataWithBenchmarksFirst(data)]
    /\ rendered' = lastAnalysisData'.data
    /\ lastEvent' = [kind |-> "display", column |-> NoColumn, fresh |-> FALSE]
    /\ UNCHANGED currentSort
    /\ UNCHANGED <<tz, serverVars, pureVars>>

\* as sortTable, had a click on the active column left the direction alone
sortTable_NoToggle(columnIndex) ==
    LET column == columns[columnIndex + 1]
    IN  /\ lastAnalysisData.hasData
        /\ currentSort' =
              IF currentSort.column = column
              THEN currentSort
              ELSE [column |-> column, direction |-> "asc"]
        /\ rendered' = sortData(lastAnalysisData.data, column, currentSort'.direction)
        /\ lastEvent' = [kind |-> "click", column |-> column,
                         fresh |-> currentSort.column # column]
        /\ UNCHANGED lastAnalysisData
        /\ UNCHANGED <<tz, serverVars, pureVars>>

\* sortTable, lines 303-323, for a click on header columnIndex
sortTable(columnIndex) ==
    LET column == columns[columnIndex + 1]
    IN  /\ lastAnalysisData.hasData
        /\ currentSort' =
              IF currentSort.column = column
              THEN [currentSort EXCEPT !.direction = IF @ = "asc" THEN "desc" ELSE "asc"]
              ELSE [column |-> column, direction |-> "asc"]
        /\ rendered' = sortData(lastAnalysisData.data, column, currentSort'.direction)
        /\ lastEvent' = [kind |-> "click", column |-> column,
                         fresh |-> currentSort.column # column]
        /\ UNCHANGED lastAnalysisData
        /\ UNCHANGED <<tz, serverVars, pureVars>>

----------------------------------------------------------------------------

Clients == {"c1"}

InitServer(clients) ==
    /\ browser = 0
    /\ launches = 0
    /\ pc = [r \in clients |-> "idle"]
    /\ body = [r \in clients |-> NoBody]
    /\ reqDate = [r \in clients |-> NoDate]
    /\ allSymbols = [r \in clients |-> <<>>]
    /\ fetches = [r \in clients |-> <<>>]
    /\ response = [r \in clients |-> NoResponse]

InitPure ==
    /\ series = EmptySeries
    /\ argDate = NoDate
    /\ result = NullResult

Init ==
    /\ tz \in TzOffsets
    /\ InitServer(Clients)
    /\ InitUi
    /\ InitPure

Next ==
    \/ \E r \in DOMAIN pc, b \in Bodies, d \in RequestDates : Receive(r, b, d)
    \/ \E r \in DOMAIN pc : LaunchResolved(r)
    \/ \E r \in DOMAIN pc : LaunchRejected(r)
    \/ \E r \in DOMAIN pc, k \in 1..(Len(benchmarks) + MaxSymbols),
          payload \in Payloads \cup {Rejected} : FetchSettled(r, k, payload)
    \/ \E r \in DOMAIN pc : Respond(r)
    \/ \E r \in DOMAIN pc : NextRequest(r)

Spec == Init /\ [][Next]_vars

----------------------------------------------------------------------------
(* getStockDataAPI applied to series the data source may hold *)

AppendPoint(s, instant, close, volume) ==
    [timestamps |-> Append(s.timestamps, instant),
     volumes |-> Append(s.volumes, volume),
     closes |-> Append(s.closes, close)]

LastInstant(s) == IF s.timestamps = <<>> THEN 0 ELSE s.timestamps[Len(s.timestamps)]

\* the series in hand is asked for another date
Resolve(date) ==
    /\ argDate' = date
    /\ result' = GetStockDataAPI("AAPL", series, date)
    /\ UNCHANGED <<tz, series, serverVars, uiVars>>

\* the data source holds one more daily session (14:00 UTC, close 100) with
\* volume v; the latest session is asked for
GrowVolumes(v) ==
    /\ Len(series.volumes) < MaxLen
    /\ series' = AppendPoint(series, (Len(series.volumes) + 1) * 24 + 14, 100, v)
    /\ argDate' = NoDate
    /\ result' = GetStockDataAPI("AAPL", series', NoDate)
    /\ UNCHANGED <<tz, serverVars, uiVars>>

InitVolume ==
    /\ tz = 0
    /\ InitServer(Clients)
    /\ InitUi
    /\ InitPure

NextVolume ==
    \/ \E v \in VolumeValues(Len(series.volumes) + 1) : GrowVolumes(v)
    \/ \E date \in 1..MaxLen : Resolve(date)

SpecVolume == InitVolume /\ [][NextVolume]_vars

\* the data source holds one more session at a later instant; the same date
\* is asked for again
GrowDated(day, hour, close) ==
    /\ Len(series.timestamps) < MaxPoints
    /\ day * 24 + hour > LastInstant(series)
    /\ series' = AppendPoint(series, day * 24 + hour, close, 2)
    /\ result' = GetStockDataAPI("AAPL", series', argDate)
    /\ UNCHANGED <<tz, argDate, serverVars, uiVars>>

InitDated ==
    /\ tz \in TzOffsets
    /\ InitServer(Clients)
    /\ InitUi
    /\ series = EmptySeries
    /\ argDate = NoDate
    /\ result = GetStockDataAPI("AAPL", EmptySeries, NoDate)

NextDated ==
    \/ \E day \in Days, hour \in Hours, close \in CloseValues : GrowDated(day, hour, close)
    \/ \E date \in Days \cup {NoDate} : Resolve(date)

SpecDated == InitDated /\ [][NextDated]_vars

\* two requests in flight at once, each for AAPL at the latest date, each
\* GET rejected or answered with one series
ConcurrentClients == {"c1", "c2"}
ConcurrentBody == [kind |-> "array", symbols |-> <<"AAPL">>]
ConcurrentPayloads == {Rejected, Daily(<<10000, 13000>>, <<2, 2>>)}

InitConcurrent ==
    /\ tz = 0
    /\ InitServer(ConcurrentClients)
    /\ InitUi
    /\ InitPure

NextConcurrent ==
    \/ \E r \in DOMAIN pc : Receive(r, ConcurrentBody, NoDate)
    \/ \E r \in DOMAIN pc : LaunchResolved(r)
    \/ \E r \in DOMAIN pc : LaunchRejected(r)
    \/ \E r \in DOMAIN pc, k \in 1..(Len(benchmarks) + 1),
          payload \in ConcurrentPayloads : FetchSettled(r, k, payload)
    \/ \E r \in DOMAIN pc : Respond(r)
    \/ \E r \in DOMAIN pc : NextRequest(r)

SpecConcurrent == InitConcurrent /\ [][NextConcurrent]_vars

InitSort ==
    /\ tz = 0
    /\ InitServer(Clients)
    /\ InitPure
    /\ InitUi

NextSort ==
    \/ \E data \in ResultSets : displayResults(data)
    \/ \E columnIndex \in 0..(Len(columns) - 1) : sortTable(columnIndex)

SpecSort == InitSort /\ [][NextSort]_vars

----------------------------------------------------------------------------
(* Properties of the request handler, checked under Spec *)

DataSymbols(r) == { response[r].data[k].symbol : k \in 1..Len(response[r].data) }
Resolved(r) == { k \in 1..Len(fetches[r]) : fetches[r][k] # NullResult }
Fetched(r) == pc[r] = "done" /\ fetches[r] # <<>>
VsField == [QQQ |-> "vs_QQQ", SPY |-> "vs_SPY", IWM |-> "vs_IWM"]
BenchmarkSet == Range(benchmarks)

\* C1: a request with a valid symbol list in which at least one fetch
\* succeeded and the others failed is answered success: true, with one entry
\* for exactly the symbols whose fetch succeeded and no error.
Thm_C1_PartialSuccess ==
    \A r \in DOMAIN pc :
        (Fetched(r) /\ IsValidBody(body[r]) /\ Resolved(r) # {})
        => /\ response[r].success
           /\ response[r].status = 200
           /\ response[r].error = ""
           /\ Len(response[r].data) = Cardinality(Resolved(r))
           /\ DataSymbols(r) = { allSymbols[r][k] : k \in Resolved(r) }

Wit_C1_PartialSuccess ==
    \E r \in DOMAIN pc :
        /\ Fetched(r)
        /\ Resolved(r) # {}
        /\ \E k \in 1..Len(fetches[r]) : fetches[r][k] = NullResult
        /\ response[r].success
        /\ Len(response[r].data) < Len(fetches[r])

\* C2 as stated: when a benchmark's fetch failed, no entry of the response
\* carries a comparison for that benchmark.
Cex_C2_MissingBenchmarkOmitted ==
    \A r \in DOMAIN pc :
        (Fetched(r) /\ response[r].success)
        => \A b \in BenchmarkSet \ DataSymbols(r) :
              \A k \in 1..Len(response[r].data) :
                  VsField[b] \notin DOMAIN response[r].data[k].comparisons

\* C2 as amended: when a benchmark's fetch failed, every entry of the
\* response still carries that benchmark's comparison, with the default
\* ratio 1 and status "weaker".
Thm_C2_MissingBenchmarkDefault ==
    \A r \in DOMAIN pc :
        (Fetched(r) /\ response[r].success)
        => \A b \in BenchmarkSet \ DataSymbols(r) :
              \A k \in 1..Len(response[r].data) :
                  /\ VsField[b] \in DOMAIN response[r].data[k].comparisons
                  /\ response[r].data[k].comparisons[VsField[b]]
                        = [ratio |-> 1000, status |-> "weaker"]

Wit_C2_MissingBenchmarkDefault ==
    \E r \in DOMAIN pc :
        /\ Fetched(r)
        /\ response[r].success
        /\ "QQQ" \notin DataSymbols(r)
        /\ \E k \in 1..Len(response[r].data) :
              /\ response[r].data[k].priceChange = 3000
              /\ response[r].data[k].comparisons.vs_QQQ.ratio = 1000

\* C3 as stated: a request whose symbols value is an empty array is rejected
\* with the validation error and no fetch, benchmark fetches included, is
\* started for it.
Cex_C3_EmptyArrayRejected ==
    \A r \in DOMAIN pc :
        (body[r].kind = "array" /\ body[r].symbols = <<>>)
        => /\ pc[r] = "done"
           /\ response[r] = BadRequest
           /\ fetches[r] = <<>>

\* C4: a request whose symbols value is missing or not an array is answered
\* 400 in the step that receives it; that step starts no fetch and does not
\* call initialize, and the request never reaches either later.
Thm_C4_MalformedRejected ==
    /\ [](\A r \in DOMAIN pc :
            body[r].kind \in {"missing", "nonarray"}
            => /\ pc[r] = "done"
               /\ response[r].status = 400
               /\ fetches[r] = <<>>)
    /\ [][\A r \in DOMAIN pc :
            (pc[r] = "idle" /\ body'[r].kind \in {"missing", "nonarray"})
            => /\ pc'[r] = "done"
               /\ browser' = browser
               /\ launches' = launches
               /\ fetches' = fetches]_vars

Wit_C4_MalformedRejected ==
    \E r \in DOMAIN pc :
        /\ body[r].kind = "nonarray"
        /\ pc[r] = "done"
        /\ response[r] = BadRequest
        /\ browser = 0

\* C5 as stated: a request with a valid symbol list ends either with the
\* success response carrying the resolved symbols or, when zero symbols
\* resolved, with the total-failure error; both are decided by the fetch
\* results alone.
Cex_C5_OutcomeFromFetchesOnly ==
    \A r \in DOMAIN pc :
        (pc[r] = "done" /\ IsValidBody(body[r]) /\ body[r].symbols # <<>>)
        => /\ fetches[r] # <<>>
           /\ \/ response[r].success /\ Resolved(r) # {}
              \/ response[r] = FetchFailed /\ Resolved(r) = {}

\* C6 as stated: a symbol whose series came back empty is unavailable and
\* has no entry in the response data.
Cex_C6_EmptySeriesExcluded ==
    \A r \in DOMAIN pc :
        Fetched(r)
        => \A k \in 1..Len(fetches[r]) :
              (fetches[r][k].kind = "data" /\ fetches[r][k].targetIndex = -1)
              => allSymbols[r][k] \notin DataSymbols(r)

\* C7 as stated: in every comparison object of a success response, status
\* is "stronger" exactly when the object's ratio field exceeds 1, and a
\* benchmark whose price change is 0 gives ratio 1 and status "weaker".
Cex_C7_StatusFromRatioField ==
    \A r \in DOMAIN pc :
        (Fetched(r) /\ response[r].success)
        => \A k \in 1..Len(response[r].data), b \in BenchmarkSet :
              LET cmp == response[r].data[k].comparisons[VsField[b]]
                  zero == \E j \in 1..Len(response[r].data) :
                             /\ response[r].data[j].symbol = b
                             /\ response[r].data[j].priceChange = 0
              IN  /\ (cmp.status = "stronger") <=> (cmp.ratio > 1000)
                  /\ cmp.status \in {"stronger", "weaker"}
                  /\ zero => cmp = [ratio |-> 1000, status |-> "weaker"]

----------------------------------------------------------------------------
(* Properties of getStockDataAPI, checked under SpecDated and SpecVolume *)

\* C8 as stated: on a non-empty ascending series the target index is the
\* last index when no date is requested; the index of a point whose instant
\* falls on the requested calendar day in the server's local time, whenever
\* there is such a point, whatever the server's offset; and the last index
\* when no point falls on that day.
Cex_C8_TargetIndex ==
    LET ts == series.timestamps
        last == Len(ts) - 1
        onDay == { i \in 0..last : (ts[i + 1] + tz) \div 24 = argDate }
    IN  (ts # <<>> /\ result.kind = "data")
        => /\ argDate = NoDate => result.targetIndex = last
           /\ (argDate # NoDate /\ onDay # {}) => result.targetIndex \in onDay
           /\ (argDate # NoDate /\ onDay = {}) => result.targetIndex = last

RECURSIVE SumOver(_, _)
SumOver(f, S) ==
    IF S = {} THEN 0
    ELSE LET x == CHOOSE y \in S : TRUE IN f[x] + SumOver(f, S \ {x})

\* the indices of the non-null volumes among the 10 points ending at i
Window(volumes, i) == { j \in 0..i : j >= i - 9 /\ volumes[j + 1] # Null }

\* C9: for every non-empty series and every target index i, avgVolume is the
\* arithmetic mean of the non-null volumes at indices max(0, i-9)..i, a
\* window of min(10, i+1) points, and 0 when all of them are null.
Thm_C9_AvgVolume ==
    LET volumes == series.volumes
    IN  \A i \in 0..(Len(volumes) - 1) :
            LET W == Window(volumes, i)
                avg == AvgVolume(volumes, i)
            IN  /\ Len(Slice(volumes, Max(0, i - 9), i + 1)) = Min(10, i + 1)
                /\ W = {} => avg = Num(0)
                /\ W # {} => /\ IsFinite(avg)
                             /\ avg.n * Cardinality(W)
                                   = avg.d * SumOver([j \in W |-> volumes[j + 1]], W)
                /\ (result.kind = "data" /\ i = result.targetIndex)
                   => result.avgVolume = avg

Wit_C9_AvgVolume ==
    /\ series.volumes = <<1, 2, 0, Null, 2, 0, 1, 2, 0, 1, 2>>
    /\ argDate = NoDate
    /\ result.targetIndex = 10
    /\ result.avgVolume = [n |-> 10, d |-> 9]

\* C10: for volumes that are non-negative integers or null and every target
\* index, volumeRatio is currentVolume / avgVolume when avgVolume > 0 and 0
\* otherwise, currentVolume being 0 for a null volume; it is finite and
\* non-negative, and no division by zero produces it.
Thm_C10_VolumeRatio ==
    LET volumes == series.volumes
    IN  /\ \A i \in 0..(Len(volumes) - 1) :
              LET avg == AvgVolume(volumes, i)
                  cur == CurrentVolume(volumes, i)
                  ratio == VlRatio(cur, avg)
              IN  /\ cur = IF volumes[i + 1] = Null THEN 0 ELSE volumes[i + 1]
                  /\ IsFinite(ratio)
                  /\ ratio.d > 0 /\ ratio.n >= 0
                  /\ avg.n > 0 => ratio.n * avg.n = ratio.d * cur * avg.d
                  /\ avg.n = 0 => ratio.n = 0
        /\ result.kind = "data"
           => /\ IsFinite(result.vlRatio)
              /\ result.vlRatio.n >= 0
              /\ result.vlRatio = VlRatio(result.currentVolume, result.avgVolume)

\* the latest day of <<1, null, 0, 1>>: the window holds 1, 0 and 1, and the
\* ratio is 1 / (2/3)
Wit_C10_VolumeRatio ==
    /\ series.volumes = <<1, Null, 0, 1>>
    /\ argDate = NoDate
    /\ result.currentVolume = 1
    /\ result.avgVolume = [n |-> 2, d |-> 3]
    /\ result.vlRatio = [n |-> 3, d |-> 2]

\* C11: the price change is 0 whenever the target index is 0 (a single-point
\* series included) and whenever the close at targetIndex - 1 is 0 or
\* absent; otherwise, for a previous close > 0, it is
\* ((currentClose - previousClose) / previousClose) * 100, which the
\* returned priceChange carries rounded to two decimals.
Thm_C11_PriceChange ==
    LET closes == series.closes
    IN  /\ \A i \in 0..(Len(closes) - 1) :
              LET raw == PriceChangeRaw(closes, i)
                  cur == closes[i + 1]
                  prev == IF i = 0 THEN Null ELSE closes[i]
              IN  /\ IsFinite(raw)
                  /\ i = 0 => raw.n = 0 /\ PriceChange(closes, i) = 0
                  /\ prev \in {Null, 0} => raw.n = 0 /\ PriceChange(closes, i) = 0
                  /\ (prev > 0 /\ cur # Null)
                     => /\ raw.n * prev = raw.d * (cur - prev) * 100
                        /\ \A h \in {PriceChange(closes, i)} :
                              /\ (2 * h - 1) * prev <= 2 * (cur - prev) * 10000
                              /\ 2 * (cur - prev) * 10000 <= (2 * h + 1) * prev
        /\ (result.kind = "data" /\ result.targetIndex >= 0)
           => result.priceChange = PriceChange(closes, result.targetIndex)

\* <<0, 130, 100>> asked for the latest day: (100 - 130) / 130
\* is -23.0769...%, returned as -23.08; index 1 follows a close of 0
Wit_C11_PriceChange ==
    /\ series.closes = <<0, 130, 100>>
    /\ argDate = NoDate
    /\ result.targetIndex = 2
    /\ result.priceChange = -2308
    /\ PriceChange(series.closes, 1) = 0

\* C12 as stated: for every request with a valid symbol list the symbols
\* fetched are exactly the union of {QQQ, SPY, IWM} and the requested
\* symbols, each fetched exactly once even when the caller lists a benchmark
\* or repeats a symbol, and the response data holds no symbol twice.
Cex_C12_FetchedIsUnion ==
    \A r \in DOMAIN pc :
        (pc[r] \in {"fetching", "done"} /\ IsValidBody(body[r]))
        => LET union == BenchmarkSet \cup Range(body[r].symbols)
           IN  /\ Len(fetches[r]) = Cardinality(union)
               /\ { allSymbols[r][k] : k \in 1..Len(fetches[r]) } = union
               /\ Len(response[r].data) = Cardinality(DataSymbols(r))

----------------------------------------------------------------------------
(* Properties of the results table, checked under SpecSort *)

Benchmarks(rows) == SelectSeq(rows, LAMBDA row : IsBenchmark(row.symbol))
Others(rows) == SelectSeq(rows, LAMBDA row : ~IsBenchmark(row.symbol))
Reverse(seq) == [k \in 1..Len(seq) |-> seq[Len(seq) + 1 - k]]

\* rows is ordered by the column, ascending or descending
OrderedBy(rows, column, direction) ==
    \A j, k \in 1..Len(rows) :
        j < k => IF direction = "asc"
                 THEN SortKey(rows[j], column) <= SortKey(rows[k], column)
                 ELSE SortKey(rows[j], column) >= SortKey(rows[k], column)

\* C13 as stated: once a result set is displayed, and after any header
\* clicks, the table shows the benchmark rows of the result in the order
\* QQQ, SPY, IWM, then all other rows ordered by the active column and
\* direction, every row of the result exactly once.
Cex_C13_BenchmarksThenSorted ==
    lastAnalysisData.hasData
    => /\ rendered = Benchmarks(rendered) \o Others(rendered)
       /\ \A j, k \in 1..Len(Benchmarks(rendered)) :
             j < k => IndexOf(Benchmarks(rendered)[j].symbol)
                         < IndexOf(Benchmarks(rendered)[k].symbol)
       /\ Len(rendered) = Len(lastAnalysisData.data)
       /\ Range(rendered) = Range(lastAnalysisData.data)
       /\ currentSort.column # NoColumn
          => OrderedBy(Others(rendered), currentSort.column, currentSort.direction)

DistinctKeys(rows, column) ==
    \A j, k \in 1..Len(rows) : j # k => SortKey(rows[j], column) # SortKey(rows[k], column)

\* C14: two consecutive clicks on the header of a column that was not the
\* active sort column order the non-benchmark rows ascending after the
\* first click and descending after the second, and when their keys in that
\* column are all distinct the second order is the first reversed.
Thm_C14_AscThenDescReverses ==
    [][(/\ lastEvent.kind = "click"
        /\ lastEvent.fresh
        /\ lastEvent' = [kind |-> "click", column |-> lastEvent.column, fresh |-> FALSE])
       => /\ currentSort = [column |-> lastEvent.column, direction |-> "asc"]
          /\ currentSort' = [column |-> lastEvent.column, direction |-> "desc"]
          /\ OrderedBy(Others(rendered), lastEvent.column, "asc")
          /\ OrderedBy(Others(rendered'), lastEvent.column, "desc")
          /\ DistinctKeys(Others(rendered), lastEvent.column)
             => Others(rendered') = Reverse(Others(rendered))]_vars

\* the price-change column clicked twice on AAPL +2.00, MSFT -1.00, TSLA 0.00
Wit_C14_AscThenDescReverses ==
    /\ lastEvent = [kind |-> "click", column |-> "priceChange", fresh |-> FALSE]
    /\ currentSort = [column |-> "priceChange", direction |-> "desc"]
    /\ Len(Others(rendered)) = 3
    /\ Others(rendered)[1].symbol = "AAPL"
    /\ Others(rendered)[2].symbol = "TSLA"
    /\ Others(rendered)[3].symbol = "MSFT"

----------------------------------------------------------------------------
(* Properties of the fan-out and of the shared scraper *)

InFlight(r) == { k \in 1..Len(fetches[r]) : fetches[r][k] = Pending }

\* C15: the response to a request is sent only after every fetch started for
\* it has completed or failed: while one of its fetches is in flight nothing
\* has been sent, a failed fetch included, and a request that was answered
\* has none in flight.
Thm_C15_ResponseAfterAllFetches ==
    \A r \in DOMAIN pc :
        /\ InFlight(r) # {} => response[r] = NoResponse /\ pc[r] = "fetching"
        /\ response[r] # NoResponse => InFlight(r) = {}

Wit_C15_ResponseAfterAllFetches ==
    \E r \in DOMAIN pc :
        /\ pc[r] = "fetching"
        /\ fetches[r][1] = NullResult
        /\ InFlight(r) = {2}
        /\ Len(fetches[r]) = 4
        /\ response[r] = NoResponse

\* C16 as stated: under any interleaving of concurrent requests the shared
\* scraper's browser is launched at most once: two requests never both call
\* initialize, so no handle is stored over an earlier one.
Cex_C16_LaunchedOnce ==
    /\ launches <= 1
    /\ Cardinality({ r \in DOMAIN pc : pc[r] = "init" }) <= 1

====
